---- MODULE Spec2Model ----
(***************************************************************************)
(* Model of src/associations/helpers.ts: the association helpers of the    *)
(* ORM (naming/uniqueness guards, foreign-key constraint synthesis,        *)
(* accessor mixin, and the defineAssociation pipeline).                    *)
(***************************************************************************)
EXTENDS Integers, Sequences, FiniteSets, TLC

VARIABLES attributes, associations, registered, guardLast,
          fkLast,
          proto, mixLast,
          defLast

vars == <<attributes, associations, registered, guardLast, fkLast,
          proto, mixLast, defLast>>

guardVars == <<attributes, associations, registered, guardLast>>
fkVars == <<fkLast>>
mixVars == <<proto, mixLast>>
defVars == <<defLast>>

\* JavaScript `undefined`
Undefined == "undefined"

(***************************************************************************)
(* Identity & collision guards                                             *)
(***************************************************************************)

\* at most this many Association objects are constructed in one run
MaxAssociations == 3

ModelNames == {"User", "Post"}
AttributeNames == {"id", "title"}
Aliases == {"author", "posts", "title"}

\* no Association object (source.associations[as] is undefined)
NoAssociation == 0

\* the Association object with identity id
AssociationOf(reg, id) == CHOOSE r \in reg : r.id = id

NoError == [error |-> "none", message |-> "none"]

checkNamingCollision_AnyModel(attrs, source, associationName) ==
    IF \E m \in DOMAIN attrs : associationName \in attrs[m]
    THEN [error |-> "Error", message |-> "NamingCollision"]
    ELSE NoError

\* checkNamingCollision(source, associationName): throws when the name is an
\* own key of source.getAttributes()
checkNamingCollision(attrs, source, associationName) ==
    IF associationName \in attrs[source]
    THEN [error |-> "Error", message |-> "NamingCollision"]
    ELSE NoError

assertAssociationUnique_NeverThrows(assocs, reg, source, as) ==
    NoError

\* assertAssociationUnique(source, options): looks up source.associations[as];
\* returns when absent, otherwise throws an AssociationError whose message
\* depends on whether the existing association is its own root
assertAssociationUnique(assocs, reg, source, as) ==
    LET existingAssociation == assocs[source][as] IN
    IF existingAssociation = NoAssociation
    THEN NoError
    ELSE LET createdByRoot == AssociationOf(reg, existingAssociation).rootAssociation IN
         [error |-> "AssociationError",
          message |-> IF createdByRoot = existingAssociation
                      THEN "DefinedTwice"
                      ELSE "CreatedByOther"]

GuardIdle == [op |-> "none", source |-> "User", name |-> "author",
              outcome |-> NoError,
              existing |-> NoAssociation, existingRoot |-> NoAssociation,
              attributesBefore |-> [m \in ModelNames |-> {}],
              associationsBefore |-> [m \in ModelNames |-> [a \in Aliases |-> NoAssociation]]]

GuardInit ==
    /\ attributes \in [ModelNames -> {{"id"}, {"id", "title"}}]
    /\ associations = [m \in ModelNames |-> [a \in Aliases |-> NoAssociation]]
    /\ registered = {}
    /\ guardLast = [GuardIdle EXCEPT !.attributesBefore = attributes]

GuardRecord(op, source, name, outcome) ==
    LET existing == IF name \in Aliases THEN associations[source][name] ELSE NoAssociation IN
    [op |-> op, source |-> source, name |-> name, outcome |-> outcome,
     existing |-> existing,
     existingRoot |-> IF existing = NoAssociation THEN NoAssociation
                      ELSE AssociationOf(registered, existing).rootAssociation,
     attributesBefore |-> attributes,
     associationsBefore |-> associations]

\* a call of checkNamingCollision(source, name)
CheckNamingCollision(source, name) ==
    /\ guardLast' = GuardRecord("checkNamingCollision", source, name,
                                checkNamingCollision(attributes, source, name))
    /\ UNCHANGED <<attributes, associations, registered>>
    /\ UNCHANGED <<fkLast, proto, mixLast, defLast>>

\* a call of assertAssociationUnique(source, { as })
AssertAssociationUnique(source, as) ==
    /\ guardLast' = GuardRecord("assertAssociationUnique", source, as,
                                assertAssociationUnique(associations, registered, source, as))
    /\ UNCHANGED <<attributes, associations, registered>>
    /\ UNCHANGED <<fkLast, proto, mixLast, defLast>>

NextId == Cardinality(registered) + 1

\* The kind-specific constructor (outside helpers.ts): runs both guards and,
\* when they pass, stores the new association in source.associations[as].
\* With `paired` it also creates the mirror association on the target under
\* alias `inverse`, whose rootAssociation is the first one.
Declare(source, target, as, paired, inverse) ==
    LET n == checkNamingCollision(attributes, source, as)
        u == assertAssociationUnique(associations, registered, source, as)
        needed == IF paired THEN 2 ELSE 1
        first == [id |-> NextId, source |-> source, target |-> target,
                  as |-> as, rootAssociation |-> NextId]
        mirror == [id |-> NextId + 1, source |-> target, target |-> source,
                   as |-> inverse, rootAssociation |-> NextId]
        withFirst == [associations EXCEPT ![source][as] = NextId]
        un == assertAssociationUnique(withFirst, registered \cup {first}, target, inverse)
        nn == checkNamingCollision(attributes, target, inverse)
    IN
    /\ Cardinality(registered) + needed <= MaxAssociations
    /\ UNCHANGED <<fkLast, proto, mixLast, defLast>>
    /\ IF n # NoError
       THEN /\ guardLast' = GuardRecord("declare", source, as, n)
            /\ UNCHANGED <<attributes, associations, registered>>
       ELSE IF u # NoError
       THEN /\ guardLast' = GuardRecord("declare", source, as, u)
            /\ UNCHANGED <<attributes, associations, registered>>
       ELSE IF paired /\ (nn # NoError \/ un # NoError)
       THEN /\ guardLast' = GuardRecord("declare", source, as, IF nn # NoError THEN nn ELSE un)
            /\ UNCHANGED <<attributes, associations, registered>>
       ELSE /\ guardLast' = GuardRecord("declare", source, as, NoError)
            /\ registered' = registered \cup (IF paired THEN {first, mirror} ELSE {first})
            /\ associations' = IF paired
                               THEN [withFirst EXCEPT ![target][inverse] = NextId + 1]
                               ELSE withFirst
            /\ UNCHANGED attributes

GuardNext ==
    \/ \E s \in ModelNames, n \in Aliases \cup AttributeNames : CheckNamingCollision(s, n)
    \/ \E s \in ModelNames, a \in Aliases : AssertAssociationUnique(s, a)
    \/ \E s \in ModelNames, t \in ModelNames, a \in Aliases, p \in BOOLEAN, i \in Aliases :
          Declare(s, t, a, p, i)

(***************************************************************************)
(* Foreign-key synthesizer                                                 *)
(***************************************************************************)

\* a source model has at most this many primary-key attributes
MaxPrimaryKeys == 2

PrimaryKeyAttributes == {"id", "a", "b"}

\* the `field` (column name) of an attribute that declares one
FieldColumn == [id |-> "id_col", a |-> "a_col", b |-> "b_col"]

TableNames == {"Users", "Posts"}
ForeignKeyFlags == {Undefined, "true", "false"}
ReferentialActions == {Undefined, "CASCADE", "SET NULL"}
Keys == {"", "id", "a", "a_col", "userId"}

\* JavaScript truthiness of the option values used here
Truthy(v) == v \notin {Undefined, "false", ""}

NoReferences == [model |-> Undefined, key |-> Undefined]

NewAttributes ==
    {[references |-> NoReferences, onDelete |-> Undefined, onUpdate |-> Undefined],
     [references |-> [model |-> "Old", key |-> "old"],
      onDelete |-> "RESTRICT", onUpdate |-> "RESTRICT"]}

\* sequences of distinct primary-key attribute names (Object.keys order)
PrimaryKeySeqs ==
    UNION {{q \in [1..n -> PrimaryKeyAttributes] :
                \A i, j \in 1..n : i # j => q[i] # q[j]} : n \in 0..MaxPrimaryKeys}

SourceModels ==
    {[tableName |-> t, primaryKeys |-> q,
      fields |-> [x \in PrimaryKeyAttributes |-> IF x \in o THEN FieldColumn[x] ELSE Undefined]] :
        t \in TableNames, q \in PrimaryKeySeqs, o \in SUBSET PrimaryKeyAttributes}

FkOptions ==
    [foreignKeyConstraint : ForeignKeyFlags,
     onDelete : ReferentialActions, onUpdate : ReferentialActions]

\* Object.keys(source.primaryKeys).map(a => source.getAttributes()[a].field || a)
primaryKeys(source) ==
    [i \in 1..Len(source.primaryKeys) |->
        IF Truthy(source.fields[source.primaryKeys[i]])
        THEN source.fields[source.primaryKeys[i]]
        ELSE source.primaryKeys[i]]

\* primaryKeys.includes(key)
Includes(q, key) == \E i \in 1..Len(q) : q[i] = key

\* key || primaryKeys[0]
KeyOrFirst(key, q) ==
    IF key # "" THEN key ELSE IF Len(q) > 0 THEN q[1] ELSE Undefined

addForeignKeyConstraints_NotOptIn(newAttribute, source, options, key) ==
    LET pks == primaryKeys(source) IN
    [attribute |->
        IF Len(pks) = 1 \/ ~Includes(pks, key)
        THEN [references |-> [model |-> source.tableName, key |-> KeyOrFirst(key, pks)],
              onDelete |-> options.onDelete, onUpdate |-> options.onUpdate]
        ELSE newAttribute,
     source |-> source]

addForeignKeyConstraints_NoCompositeSkip(newAttribute, source, options, key) ==
    LET pks == primaryKeys(source) IN
    [attribute |->
        IF Truthy(options.foreignKeyConstraint) \/ Truthy(options.onDelete)
              \/ Truthy(options.onUpdate)
        THEN [references |-> [model |-> source.tableName, key |-> KeyOrFirst(key, pks)],
              onDelete |-> options.onDelete, onUpdate |-> options.onUpdate]
        ELSE newAttribute,
     source |-> source]

addForeignKeyConstraints_KeepActions(newAttribute, source, options, key) ==
    LET pks == primaryKeys(source) IN
    [attribute |->
        IF Truthy(options.foreignKeyConstraint) \/ Truthy(options.onDelete)
              \/ Truthy(options.onUpdate)
        THEN IF Len(pks) = 1 \/ ~Includes(pks, key)
             THEN [references |-> [model |-> source.tableName, key |-> KeyOrFirst(key, pks)],
                   onDelete |-> IF options.onDelete = Undefined
                                THEN newAttribute.onDelete ELSE options.onDelete,
                   onUpdate |-> IF options.onUpdate = Undefined
                                THEN newAttribute.onUpdate ELSE options.onUpdate]
             ELSE newAttribute
        ELSE newAttribute,
     source |-> source]

\* addForeignKeyConstraints(newAttribute, source, options, key): the attribute
\* and the source model as the call leaves them
addForeignKeyConstraints(newAttribute, source, options, key) ==
    LET pks == primaryKeys(source) IN
    [attribute |->
        IF Truthy(options.foreignKeyConstraint) \/ Truthy(options.onDelete)
              \/ Truthy(options.onUpdate)
        THEN IF Len(pks) = 1 \/ ~Includes(pks, key)
             THEN [references |-> [model |-> source.tableName, key |-> KeyOrFirst(key, pks)],
                   onDelete |-> options.onDelete, onUpdate |-> options.onUpdate]
             ELSE newAttribute
        ELSE newAttribute,
     source |-> source]

\* the arguments of one call, drawn before the call
FkInit ==
    \E n \in NewAttributes, s \in SourceModels, o \in FkOptions, k \in Keys :
        fkLast = [called |-> FALSE, newAttribute |-> n, source |-> s,
                  options |-> o, key |-> k, result |-> n, sourceAfter |-> s]

\* the call addForeignKeyConstraints(newAttribute, source, options, key)
AddForeignKeyConstraints ==
    LET r == addForeignKeyConstraints(fkLast.newAttribute, fkLast.source,
                                      fkLast.options, fkLast.key) IN
    /\ ~fkLast.called
    /\ fkLast' = [fkLast EXCEPT !.called = TRUE, !.result = r.attribute,
                                !.sourceAfter = r.source]
    /\ UNCHANGED <<guardVars, mixVars, defVars>>

FkNext == AddForeignKeyConstraints

(***************************************************************************)
(* Accessor mixin installer                                                *)
(***************************************************************************)

\* the `methods` argument lists at most this many method names
MaxMethods == 2

Methods == {"get", "add", "addMultiple"}
ExposedNames == {"getFoo", "addFoo", "addFoos"}

\* association.accessors of two associations on the same prototype: one whose
\* singular and plural names differ, one whose names coincide
MixinAssociations == {"plural", "uncountable"}
Accessors ==
    [plural |-> [get |-> "getFoo", add |-> "addFoo", addMultiple |-> "addFoos"],
     uncountable |-> [get |-> "getFoo", add |-> "addFoo", addMultiple |-> "addFoo"]]

\* the optional `aliases` argument: absent, or { addMultiple: 'add' }
NoAliases == [m \in Methods |-> Undefined]
AliasMaps == {NoAliases, [NoAliases EXCEPT !["addMultiple"] = "add"]}

MethodLists == UNION {[1..n -> Methods] : n \in 0..MaxMethods}

\* what a prototype holds under a name: nothing of its own, a member the user
\* defined, or the forwarding function installed by mixinMethods
NotOwned == [kind |-> "none", association |-> "none", method |-> "none"]
UserMember == [kind |-> "user", association |-> "none", method |-> "none"]
Forwarder(association, realMethod) ==
    [kind |-> "mixin", association |-> association, method |-> realMethod]

\* Object.prototype.hasOwnProperty.call(mixinTargetPrototype, targetMethodName)
HasOwn(p, name) == p[name].kind # "none"

\* aliases?.[method] || method
RealMethod(aliases, method) ==
    IF Truthy(aliases[method]) THEN aliases[method] ELSE method

RECURSIVE mixinOverriding(_, _, _, _, _)
mixinOverriding(association, p, methods, aliases, i) ==
    IF i > Len(methods) THEN p
    ELSE LET targetMethodName == Accessors[association][methods[i]] IN
         mixinOverriding(association,
                         [p EXCEPT ![targetMethodName] =
                             Forwarder(association, RealMethod(aliases, methods[i]))],
                         methods, aliases, i + 1)

mixinMethods_Override(association, mixinTargetPrototype, methods, aliases) ==
    mixinOverriding(association, mixinTargetPrototype, methods, aliases, 1)

\* the loop of mixinMethods from the i-th listed method on
RECURSIVE mixinFrom(_, _, _, _, _)
mixinFrom(association, p, methods, aliases, i) ==
    IF i > Len(methods) THEN p
    ELSE LET targetMethodName == Accessors[association][methods[i]] IN
         IF HasOwn(p, targetMethodName)
         THEN mixinFrom(association, p, methods, aliases, i + 1)
         ELSE mixinFrom(association,
                        [p EXCEPT ![targetMethodName] =
                            Forwarder(association, RealMethod(aliases, methods[i]))],
                        methods, aliases, i + 1)

\* mixinMethods(association, mixinTargetPrototype, methods, aliases): the
\* prototype as the call leaves it
mixinMethods(association, mixinTargetPrototype, methods, aliases) ==
    mixinFrom(association, mixinTargetPrototype, methods, aliases, 1)

EmptyPrototype == [n \in ExposedNames |-> NotOwned]

MixIdle ==
    [op |-> "none", association |-> "none", methods |-> <<>>, aliases |-> NoAliases,
     name |-> "none", before |-> EmptyPrototype, after |-> EmptyPrototype,
     forwarded |-> NotOwned, repeat |-> FALSE]

MixInit ==
    /\ proto = EmptyPrototype
    /\ mixLast = MixIdle

\* a call of mixinMethods on the prototype
MixinMethods(association, methods, aliases) ==
    /\ proto' = mixinMethods(association, proto, methods, aliases)
    /\ mixLast' = [MixIdle EXCEPT !.op = "mixinMethods", !.association = association,
                                  !.methods = methods, !.aliases = aliases,
                                  !.before = proto, !.after = proto',
                                  !.repeat = /\ mixLast.op = "mixinMethods"
                                             /\ mixLast.association = association
                                             /\ mixLast.methods = methods
                                             /\ mixLast.aliases = aliases]
    /\ UNCHANGED <<guardVars, fkVars, defVars>>

\* the user defines a member of their own on the prototype; a property that
\* mixinMethods installed is neither writable nor configurable
UserDefine(name) ==
    /\ proto[name].kind # "mixin"
    /\ proto' = [proto EXCEPT ![name] = UserMember]
    /\ mixLast' = [MixIdle EXCEPT !.op = "userDefine", !.name = name,
                                  !.before = proto, !.after = proto']
    /\ UNCHANGED <<guardVars, fkVars, defVars>>

\* instance[name](...params) on an installed accessor: the installed function
\* calls association[realMethod](this, ...params)
CallAccessor(name) ==
    /\ proto[name].kind = "mixin"
    /\ mixLast' = [MixIdle EXCEPT !.op = "call", !.name = name,
                                  !.before = proto, !.after = proto,
                                  !.forwarded = proto[name]]
    /\ UNCHANGED proto
    /\ UNCHANGED <<guardVars, fkVars, defVars>>

MixNext ==
    \/ \E a \in MixinAssociations, ms \in MethodLists, al \in AliasMaps :
          MixinMethods(a, ms, al)
    \/ \E n \in ExposedNames : UserDefine(n)
    \/ \E n \in ExposedNames : CallAccessor(n)

(***************************************************************************)
(* Association construction pipeline                                       *)
(***************************************************************************)

\* values the caller may pass as options.hooks
HookFlags == {Undefined, "null", "true", "false"}

\* what a hook listener or buildFn does to options.hooks on the options
\* object it is handed
HookWrites == {"keep", "true", "false"}

\* behaviour of the callbacks defineAssociation invokes: the beforeAssociate
\* listener, buildFn (the `callback` argument) and the afterAssociate listener
Environments ==
    [beforeSets : HookWrites, beforeThrows : BOOLEAN,
     buildSets : HookWrites, buildThrows : BOOLEAN, buildRegisters : BOOLEAN,
     afterThrows : BOOLEAN]

\* Boolean(options.hooks ?? false)
NormalizeHooks(hooks) == hooks = "true"

\* options.hooks after a callback ran
Written(hooks, write) ==
    IF write = "keep" THEN hooks ELSE write = "true"

DefinePreconditions_TargetLast(targetIsModel, sourceDefined, targetDefined) ==
    IF ~sourceDefined
    THEN [error |-> "ModelNotDefined", model |-> "source"]
    ELSE IF ~targetIsModel
    THEN [error |-> "InvalidTarget", model |-> "none"]
    ELSE IF ~targetDefined
    THEN [error |-> "ModelNotDefined", model |-> "target"]
    ELSE [error |-> "none", model |-> "none"]

\* the checks that open defineAssociation: isModelStatic(target), then
\* assertAssociationModelIsDefined on source, then on target
DefinePreconditions(targetIsModel, sourceDefined, targetDefined) ==
    IF ~targetIsModel
    THEN [error |-> "InvalidTarget", model |-> "none"]
    ELSE IF ~sourceDefined
    THEN [error |-> "ModelNotDefined", model |-> "source"]
    ELSE IF ~targetDefined
    THEN [error |-> "ModelNotDefined", model |-> "target"]
    ELSE [error |-> "none", model |-> "none"]

\* defineAssociation(type, source, target, options, callback) run against the
\* callbacks' behaviour env: how the call ends, the callbacks it invoked in
\* order, the caller's options object and whether model metadata changed
defineAssociation(targetIsModel, sourceDefined, targetDefined, hooks, env) ==
    LET pre == DefinePreconditions(targetIsModel, sourceDefined, targetDefined)
        \* options = cloneDeep(options); options.hooks = Boolean(options.hooks ?? false)
        hooks0 == NormalizeHooks(hooks)
        \* if (options.hooks) source.runHooks('beforeAssociate', ...)
        ranBefore == hooks0
        hooks1 == IF ranBefore THEN Written(hooks0, env.beforeSets) ELSE hooks0
        trace1 == IF ranBefore THEN <<"beforeAssociate">> ELSE <<>>
        \* const association = callback(options)
        hooks2 == Written(hooks1, env.buildSets)
        trace2 == Append(trace1, "buildFn")
        \* if (options.hooks) source.runHooks('afterAssociate', ...)
        ranAfter == hooks2
        trace3 == IF ranAfter THEN Append(trace2, "afterAssociate") ELSE trace2
    IN
    IF pre.error # "none"
    THEN [error |-> pre.error, model |-> pre.model, trace |-> <<>>,
          callerHooks |-> hooks, metadataChanged |-> FALSE]
    ELSE IF ranBefore /\ env.beforeThrows
    THEN [error |-> "HookError", model |-> "none", trace |-> trace1,
          callerHooks |-> hooks, metadataChanged |-> FALSE]
    ELSE IF env.buildThrows
    THEN [error |-> "BuildError", model |-> "none", trace |-> trace2,
          callerHooks |-> hooks, metadataChanged |-> env.buildRegisters]
    ELSE IF ranAfter /\ env.afterThrows
    THEN [error |-> "HookError", model |-> "none", trace |-> trace3,
          callerHooks |-> hooks, metadataChanged |-> TRUE]
    ELSE [error |-> "none", model |-> "none", trace |-> trace3,
          callerHooks |-> hooks, metadataChanged |-> TRUE]

NotCalled ==
    [error |-> "none", model |-> "none", trace |-> <<>>,
     callerHooks |-> Undefined, metadataChanged |-> FALSE]

\* the arguments of one call and the behaviour of its callbacks, drawn before
\* the call
DefInit ==
    \E tm \in BOOLEAN, sd \in BOOLEAN, td \in BOOLEAN, h \in HookFlags, e \in Environments :
        defLast = [called |-> FALSE, targetIsModel |-> tm, sourceDefined |-> sd,
                   targetDefined |-> td, hooks |-> h, env |-> e,
                   result |-> [NotCalled EXCEPT !.callerHooks = h]]

\* the call defineAssociation(type, source, target, options, callback)
DefineAssociation ==
    /\ ~defLast.called
    /\ defLast' = [defLast EXCEPT
                     !.called = TRUE,
                     !.result = defineAssociation(defLast.targetIsModel,
                                                  defLast.sourceDefined,
                                                  defLast.targetDefined,
                                                  defLast.hooks, defLast.env)]
    /\ UNCHANGED <<guardVars, fkVars, mixVars>>

DefNext == DefineAssociation

(***************************************************************************)
(* Specifications, one per component                                       *)
(***************************************************************************)

GuardIdleState ==
    /\ attributes = [m \in ModelNames |-> {"id"}]
    /\ associations = [m \in ModelNames |-> [a \in Aliases |-> NoAssociation]]
    /\ registered = {}
    /\ guardLast = [GuardIdle EXCEPT !.attributesBefore = attributes]

FkIdleState ==
    fkLast = [called |-> FALSE,
              newAttribute |-> [references |-> NoReferences, onDelete |-> Undefined,
                                onUpdate |-> Undefined],
              source |-> [tableName |-> "Users", primaryKeys |-> <<>>,
                          fields |-> [x \in PrimaryKeyAttributes |-> Undefined]],
              options |-> [foreignKeyConstraint |-> Undefined, onDelete |-> Undefined,
                           onUpdate |-> Undefined],
              key |-> "",
              result |-> [references |-> NoReferences, onDelete |-> Undefined,
                          onUpdate |-> Undefined],
              sourceAfter |-> [tableName |-> "Users", primaryKeys |-> <<>>,
                               fields |-> [x \in PrimaryKeyAttributes |-> Undefined]]]

MixIdleState == proto = EmptyPrototype /\ mixLast = MixIdle

DefIdleState ==
    defLast = [called |-> FALSE, targetIsModel |-> TRUE, sourceDefined |-> TRUE,
               targetDefined |-> TRUE, hooks |-> Undefined,
               env |-> [beforeSets |-> "keep", beforeThrows |-> FALSE,
                        buildSets |-> "keep", buildThrows |-> FALSE,
                        buildRegisters |-> FALSE, afterThrows |-> FALSE],
               result |-> NotCalled]

SpecGuardInit == GuardInit /\ FkIdleState /\ MixIdleState /\ DefIdleState
SpecGuard == SpecGuardInit /\ [][GuardNext]_vars

SpecFkInit == GuardIdleState /\ FkInit /\ MixIdleState /\ DefIdleState
SpecFk == SpecFkInit /\ [][FkNext]_vars

SpecMixinInit == GuardIdleState /\ FkIdleState /\ MixInit /\ DefIdleState
SpecMixin == SpecMixinInit /\ [][MixNext]_vars

SpecDefineInit == GuardIdleState /\ FkIdleState /\ MixIdleState /\ DefInit
SpecDefine == SpecDefineInit /\ [][DefNext]_vars

(***************************************************************************)
(* Properties                                                              *)
(***************************************************************************)

\* C1: assertAssociationUnique returns without error exactly when
\* source.associations has no entry under options.as and throws an
\* AssociationError whenever one is present; it leaves source.associations
\* unchanged; and after any sequence of declarations guarded by it each
\* (source, alias) has at most one registered association.
C1_AssertUniqueContract ==
    /\ guardLast.op = "assertAssociationUnique" =>
          /\ guardLast.existing = NoAssociation => guardLast.outcome = NoError
          /\ guardLast.existing # NoAssociation =>
                guardLast.outcome.error = "AssociationError"
          /\ associations = guardLast.associationsBefore
    /\ \A s \in ModelNames, a \in Aliases :
          /\ Cardinality({r \in registered : r.source = s /\ r.as = a}) <= 1
          /\ associations[s][a] # NoAssociation =>
                \E r \in registered :
                    r.id = associations[s][a] /\ r.source = s /\ r.as = a

C1_Witness ==
    /\ guardLast.op = "assertAssociationUnique"
    /\ guardLast.existing # NoAssociation
    /\ guardLast.outcome.error = "AssociationError"
    /\ Cardinality(registered) >= 2

\* C2: assertAssociationUnique does not fail when the association already
\* registered under the alias was created by another association (its
\* rootAssociation is not itself); it fails only when the existing entry is
\* its own root.
C2_SideEffectRedeclarationAllowed ==
    guardLast.op = "assertAssociationUnique" /\ guardLast.existing # NoAssociation =>
        IF guardLast.existingRoot # guardLast.existing
        THEN guardLast.outcome = NoError
        ELSE guardLast.outcome.error = "AssociationError"

\* C3: checkNamingCollision throws the naming-collision error exactly when the
\* name is a key of the source model's attributes, and changes neither the
\* attributes nor the associations of any model.
C3_NamingCollisionContract ==
    guardLast.op = "checkNamingCollision" =>
        /\ guardLast.name \in guardLast.attributesBefore[guardLast.source] =>
              guardLast.outcome = [error |-> "Error", message |-> "NamingCollision"]
        /\ guardLast.name \notin guardLast.attributesBefore[guardLast.source] =>
              guardLast.outcome = NoError
        /\ attributes = guardLast.attributesBefore
        /\ associations = guardLast.associationsBefore

C3_Witness ==
    /\ guardLast.op = "checkNamingCollision"
    /\ guardLast.name \in attributes[guardLast.source]
    /\ guardLast.outcome.error = "Error"
    /\ \E m \in ModelNames : guardLast.name \notin attributes[m]

\* constraint generation is requested by the options
FkActive(options) ==
    \/ Truthy(options.foreignKeyConstraint)
    \/ Truthy(options.onDelete)
    \/ Truthy(options.onUpdate)

\* the composite-key case: several primary keys, the key among them
FkComposite(source, key) ==
    /\ Len(source.primaryKeys) > 1
    /\ \E i \in 1..Len(source.primaryKeys) :
          key = (IF source.fields[source.primaryKeys[i]] = Undefined
                 THEN source.primaryKeys[i]
                 ELSE source.fields[source.primaryKeys[i]])

\* C4: with none of foreignKeyConstraint, onDelete, onUpdate set,
\* addForeignKeyConstraints leaves newAttribute untouched; in every call the
\* source model is left as it was.
C4_OptIn ==
    fkLast.called =>
        /\ ~FkActive(fkLast.options) => fkLast.result = fkLast.newAttribute
        /\ fkLast.sourceAfter = fkLast.source

C4_Witness ==
    /\ fkLast.called
    /\ ~FkActive(fkLast.options)
    /\ Len(fkLast.source.primaryKeys) = 1
    /\ fkLast.newAttribute.onDelete = "RESTRICT"
    /\ fkLast.result = fkLast.newAttribute

\* C5: when constraint generation is active, the source has more than one
\* primary key and the key is among them, nothing is written to newAttribute;
\* in every other active case references is set.
C5_CompositeSkip ==
    fkLast.called /\ FkActive(fkLast.options) =>
        IF FkComposite(fkLast.source, fkLast.key)
        THEN fkLast.result = fkLast.newAttribute
        ELSE /\ fkLast.result.references # NoReferences
             /\ fkLast.result.references.model = fkLast.source.tableName

C5_Witness ==
    /\ fkLast.called
    /\ fkLast.options.foreignKeyConstraint = "true"
    /\ fkLast.source.primaryKeys = <<"a", "b">>
    /\ \A x \in PrimaryKeyAttributes : fkLast.source.fields[x] = Undefined
    /\ fkLast.key = "a"
    /\ fkLast.newAttribute.references = NoReferences
    /\ fkLast.result.references = NoReferences

\* a source whose single primary key is `id`, called with
\* options = { foreignKeyConstraint: true }
FkSingleId ==
    /\ fkLast.source.primaryKeys = <<"id">>
    /\ fkLast.source.fields["id"] = Undefined
    /\ fkLast.options = [foreignKeyConstraint |-> "true", onDelete |-> Undefined,
                         onUpdate |-> Undefined]

\* C6 as stated: with a single primary key id and
\* options = { foreignKeyConstraint: true } the result has
\* references = { model: source table, key: 'id' } whatever the key argument;
\* and when synthesis is active and not skipped, references.model is the table
\* name, references.key is key or else the first primary-key column, and
\* onDelete/onUpdate equal the options' values.
C6_Original ==
    fkLast.called =>
        /\ FkSingleId =>
              fkLast.result.references =
                  [model |-> fkLast.source.tableName, key |-> "id"]
        /\ FkActive(fkLast.options) /\ ~FkComposite(fkLast.source, fkLast.key) =>
              /\ fkLast.result.references.model = fkLast.source.tableName
              /\ fkLast.result.onDelete = fkLast.options.onDelete
              /\ fkLast.result.onUpdate = fkLast.options.onUpdate

\* C6 amended: with a single primary key id and
\* options = { foreignKeyConstraint: true }, references.key is the key
\* argument when it is non-empty and 'id' only when it is empty; when synthesis
\* is active and not skipped, references.model is the table name,
\* references.key is key or else the first primary-key column (undefined when
\* there is none), and onDelete/onUpdate equal the options' values, undefined
\* included.
C6_References ==
    fkLast.called =>
        /\ FkSingleId =>
              fkLast.result.references =
                  [model |-> fkLast.source.tableName,
                   key |-> IF fkLast.key = "" THEN "id" ELSE fkLast.key]
        /\ FkActive(fkLast.options) /\ ~FkComposite(fkLast.source, fkLast.key) =>
              /\ fkLast.result.references.model = fkLast.source.tableName
              /\ fkLast.result.references.key =
                    (IF fkLast.key # "" THEN fkLast.key
                     ELSE IF fkLast.source.primaryKeys = <<>> THEN Undefined
                     ELSE IF fkLast.source.fields[fkLast.source.primaryKeys[1]] = Undefined
                          THEN fkLast.source.primaryKeys[1]
                          ELSE fkLast.source.fields[fkLast.source.primaryKeys[1]])
              /\ fkLast.result.onDelete = fkLast.options.onDelete
              /\ fkLast.result.onUpdate = fkLast.options.onUpdate

C6_Witness ==
    /\ fkLast.called
    /\ FkSingleId
    /\ fkLast.key = "userId"
    /\ fkLast.newAttribute.onDelete = "RESTRICT"
    /\ fkLast.result.references = [model |-> fkLast.source.tableName, key |-> "userId"]
    /\ fkLast.result.onDelete = Undefined

\* the exposed name n is that of a listed method
Listed(n) ==
    \E i \in 1..Len(mixLast.methods) :
        Accessors[mixLast.association][mixLast.methods[i]] = n

\* the first listed method whose exposed name is n
FirstListed(n) ==
    LET i == CHOOSE k \in 1..Len(mixLast.methods) :
                /\ Accessors[mixLast.association][mixLast.methods[k]] = n
                /\ \A l \in 1..(k - 1) :
                      Accessors[mixLast.association][mixLast.methods[l]] # n
    IN mixLast.methods[i]

\* C7: a mixinMethods call leaves every exposed name the prototype already
\* owned as it was, and every listed exposed name that was not owned becomes
\* a function forwarding to association[aliases[m] or m], m being the listed
\* method exposed under that name (the first one listed when several share
\* it); a repeated installation changes nothing and leaves every listed
\* exposed name bound; calling an installed accessor forwards to the
\* association that installed it.
C7_NoClobber ==
    /\ mixLast.op = "mixinMethods" =>
          /\ proto = mixLast.after
          /\ \A n \in ExposedNames :
                /\ HasOwn(mixLast.before, n) => mixLast.after[n] = mixLast.before[n]
                /\ ~HasOwn(mixLast.before, n) /\ Listed(n) =>
                      mixLast.after[n] =
                          Forwarder(mixLast.association,
                                    RealMethod(mixLast.aliases, FirstListed(n)))
          /\ mixLast.repeat =>
                /\ mixLast.after = mixLast.before
                /\ \A n \in ExposedNames : Listed(n) => HasOwn(mixLast.after, n)
    /\ mixLast.op = "call" =>
          /\ mixLast.forwarded.kind = "mixin"
          /\ mixLast.forwarded.association \in MixinAssociations
          /\ mixLast.forwarded.method \in Methods

C7_Witness ==
    /\ mixLast.op = "mixinMethods"
    /\ \E n \in ExposedNames :
          /\ Listed(n)
          /\ mixLast.before[n] = UserMember
          /\ mixLast.after[n] = UserMember
    /\ \E n \in ExposedNames :
          /\ Listed(n)
          /\ ~HasOwn(mixLast.before, n)
          /\ mixLast.after[n].kind = "mixin"

InTrace(e) == \E i \in 1..Len(defLast.result.trace) : defLast.result.trace[i] = e

\* C8: every successful defineAssociation call with options.hooks = true runs
\* beforeAssociate, then buildFn, then afterAssociate, each once; every call
\* whose options.hooks is unset or false runs neither hook.
C8_HookOrdering ==
    defLast.called =>
        /\ defLast.hooks = "true" /\ defLast.result.error = "none" =>
              defLast.result.trace = <<"beforeAssociate", "buildFn", "afterAssociate">>
        /\ defLast.hooks # "true" =>
              ~InTrace("beforeAssociate") /\ ~InTrace("afterAssociate")

\* C9: defineAssociation fails with InvalidTarget when target is not a model,
\* otherwise with ModelNotDefined when source (checked first) or target has no
\* sequelize attached; in these failures no hook has run, buildFn was not
\* called, and the caller's options and the models' metadata are unchanged.
C9_PreconditionFailures ==
    defLast.called =>
        /\ ~defLast.targetIsModel => defLast.result.error = "InvalidTarget"
        /\ defLast.targetIsModel /\ ~defLast.sourceDefined =>
              defLast.result.error = "ModelNotDefined" /\ defLast.result.model = "source"
        /\ defLast.targetIsModel /\ defLast.sourceDefined /\ ~defLast.targetDefined =>
              defLast.result.error = "ModelNotDefined" /\ defLast.result.model = "target"
        /\ defLast.targetIsModel /\ defLast.sourceDefined /\ defLast.targetDefined =>
              defLast.result.error \notin {"InvalidTarget", "ModelNotDefined"}
        /\ defLast.result.error \in {"InvalidTarget", "ModelNotDefined"} =>
              /\ defLast.result.trace = <<>>
              /\ defLast.result.callerHooks = defLast.hooks
              /\ ~defLast.result.metadataChanged

C9_Witness ==
    /\ defLast.called
    /\ defLast.hooks = "true"
    /\ ~defLast.targetIsModel
    /\ ~defLast.sourceDefined
    /\ defLast.result.error = "InvalidTarget"
    /\ defLast.result.trace = <<>>

\* C10: in every defineAssociation call afterAssociate fires if and only if
\* beforeAssociate fired earlier in the call and buildFn returned, whatever
\* the listener or buildFn did to options.hooks; when buildFn fails,
\* afterAssociate does not fire and the error reaches the caller.
C10_HooksPaired ==
    defLast.called =>
        /\ InTrace("afterAssociate") <=>
              /\ InTrace("beforeAssociate")
              /\ InTrace("buildFn")
              /\ ~defLast.env.buildThrows
        /\ InTrace("buildFn") /\ defLast.env.buildThrows =>
              ~InTrace("afterAssociate") /\ defLast.result.error = "BuildError"

====
